---- MODULE Spec2Model ----
(***************************************************************************)
(* Model of ZendeskMonitor (src/SlackBot.py): the poll loop of             *)
(* monitor_agents, the tracking map agent_status_times, the ledger         *)
(* alerted_agents, the notifier send_slack_alert and the Slack action      *)
(* handler handle_acknowledgment.                                          *)
(*                                                                         *)
(* The monitor thread is modelled step by step: one step for the fetch of  *)
(* the agent list, one step per record of the per-agent loop, one for the  *)
(* end of the cycle (sort and summary) and one for the sleep.  The         *)
(* acknowledgment handler runs on the web thread and may interleave with   *)
(* any of these steps.                                                     *)
(***************************************************************************)
EXTENDS Integers, Sequences, FiniteSets, TLC

\* ------------------------------------------------------------------ bounds
MaxTime == 720          \* the wall clock is not advanced past this value
MaxSnap == 2            \* longest agent list the provider returns
LongHorizon == 1320     \* clock limit of the two-episode runs of one agent

\* -------------------------------------------------------- program constants
check_interval == 60    \* ZendeskMonitor.__init__
alert_threshold == 600  \* ZendeskMonitor.__init__

\* ------------------------------------------------------ the environment
TrackedIds == {1, 2}
excluded_agents == {3}                 \* EXCLUDED_AGENTS, read once in __init__
AgentIds == TrackedIds \cup excluded_agents

NameOf(agent_id) == <<"agent", agent_id>>   \* display name the provider reports

\* Extra seconds a cycle takes on top of time.sleep(check_interval).
WorkTimes == {0, 60}

\* A record of /api/v2/users: well formed, lacking 'name', or lacking 'id'.
Records ==
    {[id |-> a, name |-> NameOf(a)] : a \in AgentIds}
        \cup {[id |-> 1], [name |-> NameOf(1)]}

\* The user a record is about (0 when the record carries no id).
\* A record on which agent['id'] or agent['name'] has nothing to return.
Malformed(record) == "id" \notin DOMAIN record \/ "name" \notin DOMAIN record

UserOf(record) == IF "id" \in DOMAIN record THEN record.id ELSE 0

\* The provider lists a user at most once.
RECURSIVE ListsUpTo(_)
ListsUpTo(n) ==
    IF n = 0 THEN {<<>>}
    ELSE LET shorter == ListsUpTo(n - 1)
         IN  shorter \cup
             {Append(s, r) : s \in {t \in shorter : Len(t) = n - 1},
                             r \in Records} 

NoDuplicates(list) ==
    \A j, k \in 1..Len(list) : j # k => UserOf(list[j]) # UserOf(list[k])

Snapshots == {list \in ListsUpTo(MaxSnap) : NoDuplicates(list)}

\* What /channels/voice/availabilities/{id} answers: {} on a request error or
\* a missing 'availability' key, otherwise a dict that may carry agent_state.
EmptyAvailability == [k \in {} |-> "x"]
Availabilities ==
    { EmptyAvailability,
      [agent_state |-> "transfers_only"],
      [agent_state |-> "online"],
      [via |-> "phone"] }

NoCall == [called |-> FALSE]
NoObservation == [made |-> FALSE]
NoOutage == [seen |-> FALSE]
NoAck == [made |-> FALSE]

VARIABLES
    pc,                     \* monitor thread: "fetch", "loop", "sleep", "dead",
                            \* "exited"
    clock,                  \* wall clock, seconds
    current_time,           \* datetime.now() taken at the top of the cycle
    agents,                 \* the list get_agents returned in this cycle
    idx,                    \* position of the for loop in agents (1-based)
    transfers_only_agents,  \* list of <<agent_name, duration>> of the cycle
    agent_status_times,     \* tracking map: agent id -> started_at
    alerted_agents,         \* ledger: set of agent ids
    pending_buttons,        \* agent names whose alert message still shows the button
    fetch_failed,           \* history: the last get_agents hit the except branch
    sent,                   \* history: the send_slack_alert call of the last step
    observed,               \* history: the agent_state read in the last step
    episode_alerts,         \* history: notifier calls in the live episode, per id
    alerted_episodes,       \* history: episodes that called the notifier, per id
    last_observed,          \* history: last agent_state observed, per id
    pre_outage,             \* history: tracking map before an empty-list cycle
    failed_sends,           \* history: ids whose notifier call failed in this cycle
    acked_in_episode,       \* history: ids acknowledged after their episode alerted
    last_ack,               \* history: the acknowledgment handled by the last step
    stop_signal,            \* environment: "none", "requested", "slept"
    episode_undelivered,    \* history: ids whose live episode had a failed send
    lookup_gap              \* history: started_at of the episodes that went
                            \* through a cycle with an empty availability

vars == <<pc, clock, current_time, agents, idx, transfers_only_agents,
          agent_status_times, alerted_agents, pending_buttons, fetch_failed,
          sent, observed, episode_alerts, alerted_episodes, last_observed,
          pre_outage, failed_sends, acked_in_episode, last_ack, stop_signal,
          episode_undelivered, lookup_gap>>

Init ==
    /\ pc = "fetch"
    /\ clock = 0
    /\ current_time = 0
    /\ agents = <<>>
    /\ idx = 1
    /\ transfers_only_agents = <<>>
    /\ agent_status_times = [a \in {} |-> 0]
    /\ alerted_agents = {}
    /\ pending_buttons = {}
    /\ fetch_failed = FALSE
    /\ sent = NoCall
    /\ observed = NoObservation
    /\ episode_alerts = [a \in AgentIds |-> 0]
    /\ alerted_episodes = [a \in AgentIds |-> 0]
    /\ last_observed = [a \in AgentIds |-> "unseen"]
    /\ pre_outage = NoOutage
    /\ failed_sends = {}
    /\ acked_in_episode = {}
    /\ last_ack = NoAck
    /\ stop_signal = "none"
    /\ episode_undelivered = {}
    /\ lookup_gap = [a \in {} |-> 0]

\* ------------------------------------------------------------ pure helpers
\* availability.get('agent_state')
AgentState(availability) ==
    IF "agent_state" \in DOMAIN availability THEN availability.agent_state ELSE "None"

\* Variant: the exclusion test is missing.
NothingExcluded(agent_id) == FALSE

\* if agent_id in self.excluded_agents: continue
IsExcluded(agent_id) == agent_id \in excluded_agents

\* Variant: started_at is written on every transfers_only observation.
AlwaysNewEpisode(agent_id) == TRUE

\* if agent_id not in self.agent_status_times
NeedsNewEpisode(agent_id) == agent_id \notin DOMAIN agent_status_times

\* self.agent_status_times[agent_id] = current_time
WithEpisode(times, agent_id, t) ==
    [a \in DOMAIN times \cup {agent_id} |-> IF a = agent_id THEN t ELSE times[a]]

\* Variant: the pop is missing.
EpisodeKept(times, agent_id) == times

\* self.agent_status_times.pop(agent_id, None)
WithoutEpisode(times, agent_id) ==
    [a \in DOMAIN times \ {agent_id} |-> times[a]]

\* Variants: the ledger test is missing; the threshold test is missing; the
\* comparison is strict.
ShouldAlertIgnoringLedger(duration, agent_id, alerted) ==
    duration >= alert_threshold

ShouldAlertWithoutThreshold(duration, agent_id, alerted) ==
    agent_id \notin alerted

ShouldAlertStrictlyOver(duration, agent_id, alerted) ==
    duration > alert_threshold /\ agent_id \notin alerted

\* if duration >= self.alert_threshold and agent_id not in self.alerted_agents
\* Variant: the threshold test as an equality.
ShouldAlertExactlyAtThreshold(duration, agent_id, alerted) ==
    duration = alert_threshold /\ agent_id \notin alerted

ShouldAlert(duration, agent_id, alerted) ==
    duration >= alert_threshold /\ agent_id \notin alerted

\* Variant: the discard is missing.
LedgerKept(alerted, agent_id) == alerted

\* self.alerted_agents.discard(agent_id)
LedgerWithout(alerted, agent_id) == alerted \ {agent_id}

\* Variant: an empty list is taken to mean that every agent left.
TimesClearedOnEmpty(list) ==
    IF list = <<>> THEN [a \in {} |-> 0] ELSE agent_status_times

\* The top of the cycle (current_time, get_agents, `if agents:`) never writes
\* the tracking map, whatever list came back.
TimesAfterFetch(list) == agent_status_times

\* Variant: the except branch answers with a stand-in list.
GetAgentsOnErrorStandIn == <<[id |-> 1, name |-> NameOf(1)]>>

\* Variant: the add is missing.
LedgerNotAdded(alerted, agent_id) == alerted

\* self.alerted_agents.add(agent_id)
LedgerWith(alerted, agent_id) == alerted \cup {agent_id}

\* Variant: the id is added only after a delivered message.
AddsOnlyWhenDelivered(delivered) == delivered

\* self.alerted_agents.add(agent_id) follows the call of send_slack_alert,
\* which returns None whether or not the message went out.
AddsToLedger(delivered) == TRUE

\* Variant: an empty availability is handled like another agent_state.
EpisodeDroppedOnEmptyLookup(times, agent_id) ==
    [a \in DOMAIN times \ {agent_id} |-> times[a]]

\* `if availability:` has no else branch.
TimesAfterEmptyLookup(times, agent_id) == times

\* Variant: an exception of chat_postMessage leaves send_slack_alert.
SendErrorEscapes(delivered) == IF delivered THEN "loop" ELSE "dead"

\* send_slack_alert wraps the post in try/except Exception, so the loop goes on
\* whether or not the message was delivered.
PcAfterSend(delivered) == "loop"

\* The agent a button value names.
IdOf(agent_name) == CHOOSE a \in AgentIds : NameOf(a) = agent_name

\* Variants: the handler discards the agent from the ledger; it empties the
\* ledger.
LedgerClearedByAck(alerted, agent_name) == alerted \ {IdOf(agent_name)}

LedgerEmptiedByAck(alerted, agent_name) == {}

\* handle_acknowledgment has no statement that touches alerted_agents.
LedgerAfterAck(alerted, agent_name) == alerted

\* Variant: the handler drops the episode.
EpisodeLostByAck(times, agent_name) ==
    [a \in DOMAIN times \ {IdOf(agent_name)} |-> times[a]]

\* handle_acknowledgment has no statement that touches agent_status_times.
TimesAfterAck(times, agent_name) == times

\* Variant: the handler fails for an agent that is not in the ledger.
AckRaisesWhenAbsent(agent_name, ok) == IdOf(agent_name) \notin alerted_agents

\* Whether an exception leaves handle_acknowledgment: the whole body is inside
\* try/except Exception.
AckRaises(agent_name, ok) == FALSE

\* while True:
LoopContinues(signal) == TRUE

\* the except branch of get_agents: return []
GetAgentsOnError == <<>>

\* if agents:
HasAgents(list) == list # <<>>

\* Variant: the sort without reverse=True.
ListedBeforeAscending(earlier, later) == earlier[2] <= later[2]

\* key=lambda x: x[1], reverse=True: an entry stays ahead of a later one
\* unless the later one has the strictly longer duration
ListedBefore(earlier, later) == earlier[2] >= later[2]

\* list.sort(key=lambda x: x[1], reverse=True): stable, longest duration first
RECURSIVE InsertByDuration(_, _)
InsertByDuration(sorted, entry) ==
    IF sorted = <<>> THEN <<entry>>
    ELSE IF ListedBefore(Head(sorted), entry)
         THEN <<Head(sorted)>> \o InsertByDuration(Tail(sorted), entry)
         ELSE <<entry>> \o sorted

RECURSIVE SortByDurationDesc(_)
SortByDurationDesc(list) ==
    IF list = <<>> THEN <<>>
    ELSE InsertByDuration(SortByDurationDesc(SubSeq(list, 1, Len(list) - 1)),
                          list[Len(list)])

\* the tracking map as it stood before a run of empty-list cycles
OutageAfterFetch(list) ==
    IF ~HasAgents(list)
    THEN IF pre_outage.seen /\ pre_outage.phase = "outage"
         THEN pre_outage
         ELSE [seen |-> TRUE, phase |-> "outage", times |-> agent_status_times]
    ELSE IF pre_outage.seen /\ pre_outage.phase = "outage"
         THEN [pre_outage EXCEPT !.phase = "recovery"]
         ELSE NoOutage

\* ---------------------------------------------------------------- actions
\* Top of the while loop: current_time, get_agents, the empty list of the
\* cycle and the test `if agents:`.
StartCycle(list, failed) ==
    /\ pc = "fetch"
    /\ current_time' = clock
    /\ agents' = list
    /\ transfers_only_agents' = <<>>
    /\ idx' = 1
    /\ pc' = IF HasAgents(list) THEN "loop" ELSE "sleep"
    /\ fetch_failed' = failed
    /\ sent' = NoCall
    /\ observed' = NoObservation
    /\ pre_outage' = OutageAfterFetch(list)
    /\ agent_status_times' = TimesAfterFetch(list)
    /\ failed_sends' = {}
    /\ last_ack' = NoAck
    /\ UNCHANGED <<clock, alerted_agents, pending_buttons, episode_alerts,
                   alerted_episodes, last_observed, acked_in_episode,
                   stop_signal, episode_undelivered, lookup_gap>>

\* get_agents returns the 'users' of the response.
FetchOk(list) == StartCycle(list, FALSE)

\* get_agents catches a RequestException.
FetchFail == StartCycle(GetAgentsOnError, TRUE)

InLoop == pc = "loop" /\ idx <= Len(agents)

Skip ==
    /\ idx' = idx + 1
    /\ sent' = NoCall
    /\ observed' = NoObservation
    /\ last_ack' = NoAck
    /\ UNCHANGED <<pc, clock, current_time, agents, transfers_only_agents,
                   alerted_agents, pending_buttons, fetch_failed,
                   episode_alerts, alerted_episodes, last_observed, pre_outage,
                   failed_sends, acked_in_episode, stop_signal,
                   episode_undelivered>>

\* An uncaught KeyError ends the monitor thread.
Crash ==
    /\ pc' = "dead"
    /\ sent' = NoCall
    /\ observed' = NoObservation
    /\ last_ack' = NoAck
    /\ UNCHANGED <<clock, current_time, agents, idx, transfers_only_agents,
                   agent_status_times, alerted_agents, pending_buttons,
                   fetch_failed, episode_alerts, alerted_episodes, last_observed,
                   pre_outage, failed_sends, acked_in_episode, stop_signal,
                   episode_undelivered, lookup_gap>>

\* agent_id = agent['id'] on a record without 'id'
MissingId ==
    /\ InLoop
    /\ "id" \notin DOMAIN agents[idx]
    /\ Crash

SkipExcluded ==
    /\ InLoop
    /\ "id" \in DOMAIN agents[idx]
    /\ IsExcluded(agents[idx].id)
    /\ Skip
    /\ UNCHANGED <<agent_status_times, lookup_gap>>

\* agent_name = agent['name'] on a record without 'name'
MissingName ==
    /\ InLoop
    /\ "id" \in DOMAIN agents[idx]
    /\ ~IsExcluded(agents[idx].id)
    /\ "name" \notin DOMAIN agents[idx]
    /\ Crash

Processable ==
    /\ InLoop
    /\ "id" \in DOMAIN agents[idx]
    /\ ~IsExcluded(agents[idx].id)
    /\ "name" \in DOMAIN agents[idx]

\* get_agent_availability returned {}: `if availability:` is false
EmptyLookup ==
    /\ Processable
    /\ Skip
    /\ agent_status_times' =
           TimesAfterEmptyLookup(agent_status_times, agents[idx].id)

NoAvailability ==
    /\ EmptyLookup
    /\ UNCHANGED lookup_gap

\* The same step, with the started_at it met recorded in lookup_gap.
RecordedNoAvailability ==
    /\ EmptyLookup
    /\ lookup_gap' =
           IF agents[idx].id \in DOMAIN agent_status_times
           THEN WithEpisode(lookup_gap, agents[idx].id,
                            agent_status_times[agents[idx].id])
           ELSE lookup_gap

\* agent_state == 'transfers_only'
ObserveTransfersOnly(availability, delivered) ==
    /\ Processable
    /\ availability # EmptyAvailability
    /\ AgentState(availability) = "transfers_only"
    /\ LET agent_id == agents[idx].id
           agent_name == agents[idx].name
           fresh == NeedsNewEpisode(agent_id)
           times == IF fresh
                    THEN WithEpisode(agent_status_times, agent_id, current_time)
                    ELSE agent_status_times
           alerted == IF fresh
                      THEN LedgerWithout(alerted_agents, agent_id)
                      ELSE alerted_agents
           duration == current_time - times[agent_id]
           alert == ShouldAlert(duration, agent_id, alerted)
           calls == IF fresh THEN 0 ELSE episode_alerts[agent_id]
       IN  /\ alert \/ delivered
           /\ agent_status_times' = times
           /\ transfers_only_agents' =
                  Append(transfers_only_agents, <<agent_name, duration>>)
           /\ alerted_agents' = IF alert /\ AddsToLedger(delivered)
                                THEN LedgerWith(alerted, agent_id)
                                ELSE alerted
           /\ episode_undelivered' =
                  IF alert /\ ~delivered
                  THEN episode_undelivered \cup {agent_id}
                  ELSE IF fresh THEN episode_undelivered \ {agent_id}
                                ELSE episode_undelivered
           /\ pc' = IF alert THEN PcAfterSend(delivered) ELSE pc
           /\ failed_sends' = IF alert /\ ~delivered
                              THEN failed_sends \cup {agent_id}
                              ELSE failed_sends
           /\ acked_in_episode' = IF fresh
                                  THEN acked_in_episode \ {agent_id}
                                  ELSE acked_in_episode
           /\ sent' = IF alert
                      THEN [called |-> TRUE, id |-> agent_id, agent_name |-> agent_name,
                            duration |-> duration, delivered |-> delivered]
                      ELSE NoCall
           /\ pending_buttons' = IF alert /\ delivered
                                 THEN pending_buttons \cup {agent_name}
                                 ELSE pending_buttons
           /\ episode_alerts' =
                  [episode_alerts EXCEPT ![agent_id] = IF alert THEN calls + 1 ELSE calls]
           /\ alerted_episodes' =
                  [alerted_episodes EXCEPT
                      ![agent_id] = IF alert /\ calls = 0 THEN @ + 1 ELSE @]
           /\ observed' = [made |-> TRUE, id |-> agent_id, state |-> "transfers_only"]
           /\ last_observed' = [last_observed EXCEPT ![agent_id] = "transfers_only"]
    /\ idx' = idx + 1
    /\ last_ack' = NoAck
    /\ UNCHANGED <<clock, current_time, agents, fetch_failed, pre_outage,
                   stop_signal, lookup_gap>>

\* any other agent_state, None included
ObserveOther(availability) ==
    /\ Processable
    /\ availability # EmptyAvailability
    /\ AgentState(availability) # "transfers_only"
    /\ LET agent_id == agents[idx].id
       IN  /\ agent_status_times' = WithoutEpisode(agent_status_times, agent_id)
           /\ alerted_agents' = LedgerWithout(alerted_agents, agent_id)
           /\ episode_alerts' = [episode_alerts EXCEPT ![agent_id] = 0]
           /\ observed' = [made |-> TRUE, id |-> agent_id,
                           state |-> AgentState(availability)]
           /\ last_observed' = [last_observed EXCEPT ![agent_id] = "other"]
           /\ acked_in_episode' = acked_in_episode \ {agent_id}
           /\ episode_undelivered' = episode_undelivered \ {agent_id}
           /\ lookup_gap' = WithoutEpisode(lookup_gap, agent_id)
    /\ idx' = idx + 1
    /\ sent' = NoCall
    /\ last_ack' = NoAck
    /\ UNCHANGED <<pc, clock, current_time, agents, transfers_only_agents,
                   pending_buttons, fetch_failed, alerted_episodes, pre_outage,
                   failed_sends, stop_signal>>

\* after the for loop: sort, print_status_summary, log
EndCycle ==
    /\ pc = "loop"
    /\ idx > Len(agents)
    /\ transfers_only_agents' = SortByDurationDesc(transfers_only_agents)
    /\ pc' = "sleep"
    /\ sent' = NoCall
    /\ observed' = NoObservation
    /\ last_ack' = NoAck
    /\ UNCHANGED <<clock, current_time, agents, idx, agent_status_times,
                   alerted_agents, pending_buttons, fetch_failed, episode_alerts,
                   alerted_episodes, last_observed, pre_outage, failed_sends,
                   acked_in_episode, stop_signal, episode_undelivered,
                   lookup_gap>>

\* time.sleep(self.check_interval); `work` is what the cycle itself took
SleepUntil(work, horizon) ==
    /\ pc = "sleep"
    /\ clock + check_interval + work <= horizon
    /\ clock' = clock + check_interval + work
    /\ pc' = IF LoopContinues(stop_signal) THEN "fetch" ELSE "exited"
    /\ stop_signal' = IF stop_signal = "requested" THEN "slept" ELSE stop_signal
    /\ sent' = NoCall
    /\ observed' = NoObservation
    /\ last_ack' = NoAck
    /\ UNCHANGED <<current_time, agents, idx, transfers_only_agents,
                   agent_status_times, alerted_agents, pending_buttons,
                   fetch_failed, episode_alerts, alerted_episodes, last_observed,
                   pre_outage, failed_sends, acked_in_episode,
                   episode_undelivered, lookup_gap>>

Sleep(work) == SleepUntil(work, MaxTime)

\* handle_acknowledgment: ack(), thread reply, chat_update without the button,
\* all inside try/except Exception.  `ok` says whether the Slack calls went
\* through.  The handler reads and writes nothing of the monitor.
AckEffect(agent_name, ok) ==
    /\ pending_buttons' = IF ok THEN pending_buttons \ {agent_name}
                                ELSE pending_buttons
    /\ alerted_agents' = LedgerAfterAck(alerted_agents, agent_name)
    /\ agent_status_times' = TimesAfterAck(agent_status_times, agent_name)
    /\ acked_in_episode' =
           IF /\ ok
              /\ agent_name \in pending_buttons
              /\ IdOf(agent_name) \in DOMAIN agent_status_times
              /\ episode_alerts[IdOf(agent_name)] >= 1
           THEN acked_in_episode \cup {IdOf(agent_name)}
           ELSE acked_in_episode
    /\ UNCHANGED <<pc, clock, current_time, agents, idx, transfers_only_agents,
                   fetch_failed, sent, observed, episode_alerts,
                   alerted_episodes, last_observed, pre_outage, failed_sends,
                   stop_signal, episode_undelivered, lookup_gap>>

\* A click on the button of a posted alert.
HandleAcknowledgment(agent_name) ==
    /\ agent_name \in pending_buttons
    /\ AckEffect(agent_name, TRUE)
    /\ UNCHANGED last_ack

\* Any acknowledgment request, with or without an outstanding alert, recorded
\* in last_ack.
ObservedAcknowledgment(agent_name, ok) ==
    /\ AckEffect(agent_name, ok)
    /\ last_ack' = [made |-> TRUE, agent_name |-> agent_name, ok |-> ok,
                    had_button |-> agent_name \in pending_buttons,
                    raised |-> AckRaises(agent_name, ok)]

\* A caller asks the poll loop to stop.
RequestStop ==
    /\ stop_signal = "none"
    /\ stop_signal' = "requested"
    /\ UNCHANGED <<episode_undelivered, lookup_gap>>
    /\ UNCHANGED <<pc, clock, current_time, agents, idx, transfers_only_agents,
                   agent_status_times, alerted_agents, pending_buttons,
                   fetch_failed, sent, observed, episode_alerts,
                   alerted_episodes, last_observed, pre_outage, failed_sends,
                   acked_in_episode, last_ack>>

Next ==
    \/ \E list \in Snapshots : FetchOk(list)
    \/ FetchFail
    \/ MissingId
    \/ SkipExcluded
    \/ MissingName
    \/ NoAvailability
    \/ \E av \in Availabilities, delivered \in BOOLEAN :
           ObserveTransfersOnly(av, delivered)
    \/ \E av \in Availabilities : ObserveOther(av)
    \/ EndCycle
    \/ \E work \in WorkTimes : Sleep(work)
    \/ \E a \in TrackedIds : HandleAcknowledgment(NameOf(a))

Spec == Init /\ [][Next]_vars

TypeOK ==
    /\ pc \in {"fetch", "loop", "sleep", "dead", "exited"}
    /\ clock \in 0..MaxTime
    /\ current_time \in 0..clock
    /\ agents \in Snapshots
    /\ idx \in 1..(Len(agents) + 1)
    /\ DOMAIN agent_status_times \subseteq AgentIds
    /\ \A a \in DOMAIN agent_status_times : agent_status_times[a] \in 0..current_time
    /\ alerted_agents \subseteq AgentIds
    /\ episode_undelivered \subseteq AgentIds
    /\ DOMAIN lookup_gap \subseteq AgentIds

\* ------------------------------------------- scenario: one steady agent
\* Agent 1 is listed by every poll, ahead of any record that ends the thread,
\* its availability lookup always answers transfers_only, and the polls are
\* exactly check_interval apart.  The other agents behave freely.
Agent1 == [id |-> 1, name |-> NameOf(1)]

SteadySnapshots ==
    {list \in Snapshots :
        \E k \in 1..Len(list) :
            /\ list[k] = Agent1
            /\ \A j \in 1..(k - 1) : "id" \in DOMAIN list[j]}

SteadyFetch(list) == FetchOk(list)

SteadyNoAvailability ==
    /\ InLoop
    /\ agents[idx] # Agent1
    /\ NoAvailability

SteadyObserveOther(availability) ==
    /\ InLoop
    /\ agents[idx] # Agent1
    /\ ObserveOther(availability)

NextSteady ==
    \/ \E list \in SteadySnapshots : SteadyFetch(list)
    \/ MissingId
    \/ SkipExcluded
    \/ SteadyNoAvailability
    \/ \E av \in Availabilities, delivered \in BOOLEAN :
           ObserveTransfersOnly(av, delivered)
    \/ \E av \in Availabilities : SteadyObserveOther(av)
    \/ EndCycle
    \/ Sleep(0)
    \/ \E a \in TrackedIds : HandleAcknowledgment(NameOf(a))

SpecSteady == Init /\ [][NextSteady]_vars

\* ------------------------------- scenario: one agent over a long horizon
\* Only agent 1 (and the excluded agent) is ever listed, so that the clock
\* can run long enough for two episodes of agent 1 to reach the threshold.
SoloSnapshots == {list \in Snapshots : \A k \in 1..Len(list) : UserOf(list[k]) # 2}

SoloFetch(list) == FetchOk(list)

SoloSleep(work) == SleepUntil(work, LongHorizon)

NextSolo ==
    \/ \E list \in SoloSnapshots : SoloFetch(list)
    \/ FetchFail
    \/ MissingId
    \/ SkipExcluded
    \/ MissingName
    \/ NoAvailability
    \/ \E av \in Availabilities, delivered \in BOOLEAN :
           ObserveTransfersOnly(av, delivered)
    \/ \E av \in Availabilities : ObserveOther(av)
    \/ EndCycle
    \/ \E work \in WorkTimes : SoloSleep(work)
    \/ \E a \in TrackedIds : HandleAcknowledgment(NameOf(a))

SpecSolo == Init /\ [][NextSolo]_vars

\* monitor_agents runs in a thread of its own (start_monitoring): while the
\* thread is alive its next statement is eventually executed.  What the
\* provider answers and when acknowledgments arrive stays unconstrained.
MonitorStep ==
    \/ \E list \in SoloSnapshots : SoloFetch(list)
    \/ FetchFail
    \/ MissingId
    \/ SkipExcluded
    \/ MissingName
    \/ NoAvailability
    \/ \E av \in Availabilities, delivered \in BOOLEAN :
           ObserveTransfersOnly(av, delivered)
    \/ \E av \in Availabilities : ObserveOther(av)
    \/ EndCycle
    \/ \E work \in WorkTimes : SoloSleep(work)

SpecSoloFair == SpecSolo /\ WF_vars(MonitorStep)

\* ------------------------------- scenario: availability lookups that fail
\* Every record is well formed; each empty availability met by a tracked
\* agent is recorded in lookup_gap together with the started_at it met.
LookupSnapshots ==
    {list \in Snapshots : \A k \in 1..Len(list) : ~Malformed(list[k])}

LookupFetch(list) == FetchOk(list)

NextLookup ==
    \/ \E list \in LookupSnapshots : LookupFetch(list)
    \/ FetchFail
    \/ SkipExcluded
    \/ RecordedNoAvailability
    \/ \E av \in Availabilities, delivered \in BOOLEAN :
           ObserveTransfersOnly(av, delivered)
    \/ \E av \in Availabilities : ObserveOther(av)
    \/ EndCycle
    \/ \E work \in WorkTimes : Sleep(work)

SpecLookup == Init /\ [][NextLookup]_vars

\* --------------------- scenario: one agent, acknowledgments, stop request
\* Only agent 1 (and the excluded agent) is ever listed.  Acknowledgment
\* requests arrive for any agent at any moment, with or without an alert to
\* acknowledge, and a caller may ask the loop to stop.
OperatorFetch(list) == FetchOk(list)

NextOperator ==
    \/ \E list \in SoloSnapshots : OperatorFetch(list)
    \/ FetchFail
    \/ MissingId
    \/ SkipExcluded
    \/ MissingName
    \/ NoAvailability
    \/ \E av \in Availabilities, delivered \in BOOLEAN :
           ObserveTransfersOnly(av, delivered)
    \/ \E av \in Availabilities : ObserveOther(av)
    \/ EndCycle
    \/ \E work \in WorkTimes : Sleep(work)
    \/ \E a \in TrackedIds, ok \in BOOLEAN : ObservedAcknowledgment(NameOf(a), ok)
    \/ RequestStop

SpecOperator == Init /\ [][NextOperator]_vars

\* ------------------------------------------------------------ properties
\* The step just taken read agent a's state as `state`.
Watched(a) == observed.made /\ observed.id = a /\ observed.state = "transfers_only"
Left(a) == observed.made /\ observed.id = a /\ observed.state # "transfers_only"

\* The current cycle has already gone past agent a's record.
Processed(a) == \E k \in 1..(idx - 1) : UserOf(agents[k]) = a

Listed(a) == \E k \in 1..Len(agents) : UserOf(agents[k]) = a

Duration(a) == current_time - agent_status_times[a]

\* C1: within one episode of an agent (from the creation of its tracking
\* entry to its deletion) send_slack_alert is called at most once.
AtMostOneAlertPerEpisode ==
    \A a \in AgentIds : episode_alerts[a] <= 1

\* An agent already alerted in this episode is seen over the threshold again
\* and the notifier is not called.
SuppressedRepeat ==
    \E a \in TrackedIds :
        /\ Watched(a)
        /\ Duration(a) > alert_threshold
        /\ episode_alerts[a] = 1
        /\ ~sent.called

\* C2: a step that leaves an agent tracked leaves its started_at as it was; in
\* particular a poll that observes a tracked agent in transfers_only again
\* keeps the entry and its value.
StartedAtStable ==
    [][\A a \in AgentIds :
          a \in DOMAIN agent_status_times =>
              /\ a \in DOMAIN agent_status_times' =>
                     agent_status_times'[a] = agent_status_times[a]
              /\ Watched(a)' => a \in DOMAIN agent_status_times']_vars

ContinuedEpisode ==
    \E a \in TrackedIds :
        /\ Watched(a)
        /\ Duration(a) >= 2 * check_interval

\* C3: the notifier is called for an agent only in a step after which the agent
\* has a tracking entry and current_time - started_at >= alert_threshold, and
\* the duration passed to it is that difference.
AlertOnlyOverThreshold ==
    sent.called =>
        /\ sent.id \in DOMAIN agent_status_times
        /\ Duration(sent.id) >= alert_threshold
        /\ sent.duration = Duration(sent.id)

AlertSent == sent.called /\ Watched(sent.id)

\* C4: in the steady scenario agent 1 is alerted by the poll at t=600 with
\* duration 600, by no other poll, and from t=600 on it has been alerted
\* exactly once.
SteadyAlertAt600 ==
    /\ (sent.called /\ sent.id = 1) => (current_time = 600 /\ sent.duration = 600)
    /\ (Watched(1) /\ current_time = 600) => (sent.called /\ sent.id = 1)
    /\ (Processed(1) /\ current_time < 600) => episode_alerts[1] = 0
    /\ (Processed(1) /\ current_time >= 600) =>
           (episode_alerts[1] = 1 /\ 1 \in alerted_agents)

SteadySuppressedAt660 ==
    /\ Watched(1)
    /\ current_time = 660
    /\ Duration(1) = 660
    /\ ~sent.called
    /\ episode_alerts[1] = 1

\* C5: observing another state deletes the episode and the ledger entry; an
\* untracked agent observed in transfers_only gets an entry whose started_at is
\* the time of that poll, outside the ledger and with no alert counted; and an
\* episode seen at or over the threshold that has not alerted itself alerts,
\* whatever earlier episodes did.
TwoDistinctEpisodes ==
    [][\A a \in TrackedIds :
          /\ Left(a)' =>
                 /\ a \notin DOMAIN agent_status_times'
                 /\ a \notin alerted_agents'
          /\ (a \notin DOMAIN agent_status_times
                  /\ a \in DOMAIN agent_status_times') =>
                 /\ Watched(a)'
                 /\ agent_status_times'[a] = current_time'
                 /\ a \notin alerted_agents'
                 /\ episode_alerts'[a] = 0
          /\ (Watched(a)' /\ observed # observed'
                  /\ Duration(a)' >= alert_threshold
                  /\ (a \notin DOMAIN agent_status_times \/ episode_alerts[a] = 0)) =>
                 (sent'.called /\ sent'.id = a)]_vars

\* A second episode of agent 1 alerts after an earlier one did.
SecondEpisodeAlerted ==
    /\ sent.called
    /\ sent.id = 1
    /\ alerted_episodes[1] = 2
    /\ agent_status_times[1] > alert_threshold

\* C6: every step of a cycle whose get_agents failed leaves the tracking map
\* and the ledger as they were and calls no notifier.
FailedFetchKeepsState ==
    [][fetch_failed' =>
          /\ agent_status_times' = agent_status_times
          /\ alerted_agents' = alerted_agents
          /\ ~sent'.called]_vars

FailedFetchWithEpisodes ==
    /\ fetch_failed
    /\ pc = "sleep"
    /\ DOMAIN agent_status_times = TrackedIds
    /\ alerted_agents # {}

\* C7 (as claimed): at the end of a cycle whose fetch returned a non-empty list
\* every agent with an episode or a ledger entry is in that list.
AbsentAgentDropped ==
    (pc = "sleep" /\ ~fetch_failed /\ HasAgents(agents)) =>
        \A a \in DOMAIN agent_status_times \cup alerted_agents : Listed(a)

\* C8: when one or more cycles got an empty list and the next one observes in
\* transfers_only an agent that had an episode before them, its started_at is
\* the one from before the empty cycles and the reported duration counts from it.
OutageKeepsStartedAt ==
    \A a \in TrackedIds :
        (/\ pre_outage.seen
         /\ pre_outage.phase = "recovery"
         /\ a \in DOMAIN pre_outage.times
         /\ Watched(a)) =>
            /\ a \in DOMAIN agent_status_times
            /\ agent_status_times[a] = pre_outage.times[a]
            /\ transfers_only_agents[Len(transfers_only_agents)] =
                   <<NameOf(a), current_time - pre_outage.times[a]>>

RecoveredAfterOutage ==
    \E a \in TrackedIds :
        /\ pre_outage.seen
        /\ pre_outage.phase = "recovery"
        /\ a \in DOMAIN pre_outage.times
        /\ Watched(a)
        /\ ~fetch_failed
        /\ Duration(a) >= 2 * check_interval

\* C9: an excluded agent is never in the tracking map or the ledger, never in
\* the list of the cycle, never has its state read and is never alerted.
ExcludedNeverTracked ==
    \A a \in excluded_agents :
        /\ a \notin DOMAIN agent_status_times
        /\ a \notin alerted_agents
        /\ \A k \in 1..Len(transfers_only_agents) :
               transfers_only_agents[k][1] # NameOf(a)
        /\ ~(sent.called /\ sent.id = a)
        /\ ~(observed.made /\ observed.id = a)
        /\ last_observed[a] = "unseen"

ExcludedSkipped ==
    \E a \in excluded_agents :
        /\ Processed(a)
        /\ transfers_only_agents # <<>>
        /\ pc = "sleep"

\* C10: a non-excluded agent has a tracking entry exactly when the last poll
\* that read a state for it read transfers_only.
EpisodeIffLastWatched ==
    \A a \in TrackedIds :
        a \in DOMAIN agent_status_times <=> last_observed[a] = "transfers_only"

TrackedWhileUnlisted ==
    /\ pc = "sleep"
    /\ HasAgents(agents)
    /\ 1 \in DOMAIN agent_status_times
    /\ ~Listed(1)
    /\ last_observed[2] = "other"

\* C11 (as claimed): at the end of a cycle whose fetch succeeded every agent
\* with a live episode at or over the threshold is in the ledger.
OverThresholdInLedger ==
    (pc = "sleep" /\ ~fetch_failed) =>
        \A a \in DOMAIN agent_status_times :
            Duration(a) >= alert_threshold => a \in alerted_agents

\* C11 (amended): at the end of a cycle whose fetch succeeded every agent that
\* the cycle read as transfers_only with a duration at or over the threshold
\* is in the ledger and its episode has called the notifier once.
ObservedOverThresholdInLedger ==
    (pc = "sleep" /\ ~fetch_failed) =>
        \A k \in 1..Len(transfers_only_agents) :
            transfers_only_agents[k][2] >= alert_threshold =>
                \E a \in TrackedIds :
                    /\ NameOf(a) = transfers_only_agents[k][1]
                    /\ a \in DOMAIN agent_status_times
                    /\ a \in alerted_agents
                    /\ episode_alerts[a] = 1

CycleEndedOverThreshold ==
    /\ pc = "sleep"
    /\ ~fetch_failed
    /\ \E k \in 1..Len(transfers_only_agents) :
           transfers_only_agents[k][2] >= alert_threshold
    /\ alerted_agents # {}

\* C12: a failed notifier call leaves the monitor in the loop, past the record
\* it was sent for; the thread never ends on a well-formed record; and a cycle
\* with a failed call that reaches its end has visited every record.
NotifierFailureContained ==
    /\ (sent.called /\ ~sent.delivered) =>
           (pc = "loop" /\ Processed(sent.id) /\ sent.id \in failed_sends)
    /\ pc = "dead" => (idx <= Len(agents) /\ Malformed(agents[idx]))
    /\ (pc = "sleep" /\ failed_sends # {}) => idx = Len(agents) + 1

\* After the call for one agent failed, a later agent of the same cycle was
\* alerted and the message delivered.
LaterAgentAlertedAfterFailure ==
    \E a \in failed_sends :
        /\ sent.called
        /\ sent.delivered
        /\ sent.id # a
        /\ Processed(a)

\* C13 (as claimed): from a malformed record the loop moves to the next record
\* with the tracking map and the ledger as they were.
MalformedRecordSkipped ==
    [][(InLoop /\ Malformed(agents[idx]) /\ <<pc, idx>> # <<pc', idx'>>) =>
          /\ pc' = "loop"
          /\ idx' = idx + 1
          /\ agent_status_times' = agent_status_times
          /\ alerted_agents' = alerted_agents]_vars

\* C14 (as claimed): whatever went wrong in a cycle (failed fetch, failed
\* notifier call, malformed record) the monitor thread is still alive.
LoopSurvivesBadCycle ==
    (\/ fetch_failed
     \/ failed_sends # {}
     \/ \E k \in 1..Len(agents) : Malformed(agents[k])) => pc # "dead"

\* The step just taken handled an acknowledgment for agent a.
AckFor(a) == last_ack.made /\ last_ack.agent_name = NameOf(a)

NoAlertAfterAck ==
    [][\A a \in acked_in_episode :
          /\ episode_alerts'[a] <= episode_alerts[a]
          /\ ~(sent'.called /\ sent'.id = a /\ sent' # sent)]_vars

AckedEpisodeStaysQuiet ==
    \E a \in acked_in_episode :
        /\ Watched(a)
        /\ Duration(a) > alert_threshold
        /\ ~sent.called
        /\ episode_alerts[a] = 1

\* C17: no exception leaves the handler; an acknowledgment for an agent
\* without an episode or without a ledger entry changes neither the tracking
\* map nor the ledger; and a second acknowledgment right after a successful one
\* for the same agent changes nothing at all.
AckTotalAndIdempotent ==
    [][last_ack'.made =>
          LET a == IdOf(last_ack'.agent_name)
          IN  /\ ~last_ack'.raised
              /\ (a \notin DOMAIN agent_status_times \/ a \notin alerted_agents) =>
                     /\ agent_status_times' = agent_status_times
                     /\ alerted_agents' = alerted_agents
              /\ (/\ last_ack.made
                  /\ last_ack.ok
                  /\ last_ack.agent_name = last_ack'.agent_name) =>
                     /\ agent_status_times' = agent_status_times
                     /\ alerted_agents' = alerted_agents
                     /\ pending_buttons' = pending_buttons
                     /\ acked_in_episode' = acked_in_episode]_vars

AckWithoutLedgerEntry ==
    /\ AckFor(1)
    /\ ~last_ack.had_button
    /\ 1 \in DOMAIN agent_status_times
    /\ 1 \notin alerted_agents
    /\ Duration(1) > 0

\* C18: an acknowledgment handled while the monitor is inside the per-agent
\* loop changes no variable of the monitor thread and raises nothing, so the
\* cycle runs as if the acknowledgment had come before or after it.
AckLeavesCycleAlone ==
    [][(last_ack'.made /\ pc = "loop") =>
          /\ ~last_ack'.raised
          /\ UNCHANGED <<pc, idx, agents, current_time, transfers_only_agents,
                         agent_status_times, alerted_agents, episode_alerts,
                         alerted_episodes, failed_sends, sent, observed>>]_vars

AckInsideCycle ==
    /\ last_ack.made
    /\ last_ack.ok
    /\ last_ack.had_button
    /\ pc = "loop"
    /\ 1 < idx
    /\ idx <= Len(agents)
    /\ alerted_agents # {}

\* C19 (as claimed): once a stop was requested and the sleep that follows has
\* been taken, no further cycle starts.
StopEndsLoop ==
    stop_signal = "slept" => pc \in {"fetch", "exited"}

\* C20: every id in the ledger has a tracking entry.
LedgerSubsetOfTracked ==
    alerted_agents \subseteq DOMAIN agent_status_times

AlertedEpisodeDeleted ==
    \E a \in TrackedIds :
        /\ Left(a)
        /\ alerted_episodes[a] = 1
        /\ a \notin alerted_agents
        /\ alerted_agents # {}

\* ---------------------------------------------------------------- C21
EntriesOf(list) == {list[k] : k \in 1..Len(list)}

\* C21: the step that ends a cycle leaves the active list ordered by duration,
\* longest first, with the entries it had, and changes neither the tracking
\* map nor the ledger.
SortedListKeepsState ==
    [][(pc = "loop" /\ pc' = "sleep") =>
          /\ \A j, k \in 1..Len(transfers_only_agents') :
                 j < k => transfers_only_agents'[j][2] >= transfers_only_agents'[k][2]
          /\ Len(transfers_only_agents') = Len(transfers_only_agents)
          /\ EntriesOf(transfers_only_agents') = EntriesOf(transfers_only_agents)
          /\ agent_status_times' = agent_status_times
          /\ alerted_agents' = alerted_agents]_vars

\* a cycle ended whose second agent had the longer duration: the sort moved
\* it to the head of the list
ReorderedActiveList ==
    /\ pc = "sleep"
    /\ Len(agents) = 2
    /\ Len(transfers_only_agents) = 2
    /\ transfers_only_agents[1][2] > transfers_only_agents[2][2]
    /\ transfers_only_agents[1][1] = NameOf(UserOf(agents[2]))
    /\ DOMAIN agent_status_times = TrackedIds

\* ---------------------------------------------------------------- C22
InActiveList(a) ==
    \E k \in 1..Len(transfers_only_agents) :
        transfers_only_agents[k][1] = NameOf(a)

\* Agent 1 was just read as transfers_only, its episode has had no notifier
\* call, and the clock can still run alert_threshold past its started_at.
WatchedUnalerted ==
    /\ pc = "loop"
    /\ Watched(1)
    /\ episode_alerts[1] = 0
    /\ agent_status_times[1] + alert_threshold <= LongHorizon

\* The notifier is called for agent 1's episode, or the premise ends: a
\* cycle finishes without having read agent 1 as transfers_only, or the
\* thread has died.
AlertedOrPremiseEnded ==
    \/ episode_alerts[1] >= 1
    \/ pc = "sleep" /\ ~InActiveList(1)
    \/ pc = "dead"

\* C22: once agent 1 is read as transfers_only, and every later poll
\* completes and reads it as transfers_only again, the notifier is eventually
\* called for that episode.
WatchedLeadsToAlert == WatchedUnalerted ~> AlertedOrPremiseEnded

\* the notifier is called for an episode of agent 1 that began after the
\* first poll and was read as transfers_only in cycles of both lengths
LateEpisodeAlerted ==
    /\ sent.called
    /\ sent.id = 1
    /\ agent_status_times[1] > 0
    /\ sent.duration > alert_threshold
    /\ InActiveList(1)

\* ---------------------------------------------------------------- C23
\* C23: an agent whose episode had a failed notifier call is in the ledger
\* for the rest of the episode, the failed call stays the only call of the
\* episode, and no call for the agent is delivered while the episode lasts.
FailedAlertNotRetried ==
    \A a \in episode_undelivered :
        /\ a \in DOMAIN agent_status_times
        /\ a \in alerted_agents
        /\ episode_alerts[a] = 1
        /\ ~(sent.called /\ sent.id = a /\ sent.delivered)

\* a cycle after the failed call reads the agent as transfers_only, over the
\* threshold, and the notifier is not called
QuietAfterFailedAlert ==
    \E a \in episode_undelivered :
        /\ Watched(a)
        /\ Duration(a) > alert_threshold
        /\ ~sent.called

\* ---------------------------------------------------------------- C24
\* C24: a step on which the availability lookup returns nothing changes
\* neither the tracking map, the ledger nor the active list, calls no
\* notifier and goes on to the next record; the episode that was there keeps
\* its started_at, and the next transfers_only observation reports the
\* duration counted from it.
EmptyLookupKeepsEpisode ==
    [][/\ (Processable /\ idx' = idx + 1 /\ ~observed'.made) =>
             /\ agent_status_times' = agent_status_times
             /\ alerted_agents' = alerted_agents
             /\ transfers_only_agents' = transfers_only_agents
             /\ ~sent'.called
             /\ pc' = "loop"
       /\ \A a \in DOMAIN lookup_gap' :
             /\ a \in DOMAIN agent_status_times'
             /\ agent_status_times'[a] = lookup_gap'[a]
             /\ (Watched(a)' /\ idx' = idx + 1) =>
                    transfers_only_agents'[Len(transfers_only_agents')] =
                        <<NameOf(a), current_time' - lookup_gap'[a]>>]_vars

\* after a cycle whose lookup returned nothing, the agent is read as
\* transfers_only again and alerted with the duration of the old episode,
\* in a cycle that processed the other tracked agent first
AlertedAcrossLookupGap ==
    \E a \in DOMAIN lookup_gap :
        /\ Watched(a)
        /\ sent.called
        /\ sent.id = a
        /\ sent.duration = current_time - lookup_gap[a]
        /\ sent.duration > alert_threshold
        /\ Len(transfers_only_agents) = 2
====
